---- MODULE Spec2Model ----
(***************************************************************************)
(* Model of the Gmail cleanup agent: fetch -> group -> decide -> execute,  *)
(* for the graph/console entry point (main.py) and the Streamlit entry     *)
(* point (app.py).  Strings are sequences of one-character strings, so     *)
(* that strip/lower/split/replace are computed as Python computes them.    *)
(***************************************************************************)
EXTENDS Integers, Sequences, FiniteSets, TLC

\* ------------------------------------------------------------------ bounds
MaxMsgs == 3
MaxRawLen == 4
MaxReruns == 1
MaxRerunMsgs == 2

\* ------------------------------------------------------- program constants
DefaultMaxFetch == 10
SafeSenderLen == 48
PreviewLen == 140

\* ----------------------------------------------------------------- strings
Min(a, b) == IF a < b THEN a ELSE b

\* the lower-case form of a character, for the capitals the inputs use
LowerChar(c) ==
  CASE c = "A" -> "a"
    [] c = "B" -> "b"
    [] c = "D" -> "d"
    [] c = "K" -> "k"
    [] c = "N" -> "n"
    [] c = "X" -> "x"
    [] OTHER -> c

\* str.lower()
Lower(s) == [i \in 1..Len(s) |-> LowerChar(s[i])]

\* str.strip(): drops leading and trailing whitespace
RECURSIVE LStrip(_)
LStrip(s) == IF s # <<>> /\ Head(s) = " " THEN LStrip(Tail(s)) ELSE s

RECURSIVE RStrip(_)
RStrip(s) ==
  IF s # <<>> /\ s[Len(s)] = " " THEN RStrip(SubSeq(s, 1, Len(s) - 1)) ELSE s

Strip(s) == RStrip(LStrip(s))

\* c in s
Contains(s, c) == \E i \in 1..Len(s) : s[i] = c

\* str.find(c) + 1: the first position of c in s, 0 when absent
IndexOf(s, c) ==
  IF Contains(s, c) THEN CHOOSE i \in 1..Len(s) :
                           s[i] = c /\ \A j \in 1..(i - 1) : s[j] # c
  ELSE 0

\* str.split(c): the pieces of s between the occurrences of c
RECURSIVE Split(_, _)
Split(s, c) ==
  LET i == IndexOf(s, c) IN
  IF i = 0 THEN <<s>>
  ELSE <<SubSeq(s, 1, i - 1)>> \o Split(SubSeq(s, i + 1, Len(s)), c)

\* str.replace(c, d)
Replace(s, c, d) == [i \in 1..Len(s) |-> IF s[i] = c THEN d ELSE s[i]]

\* s[:n]
Take(s, n) == SubSeq(s, 1, Min(n, Len(s)))

\* ---------------------------------------------------------- body preview
\* the characters of a base64 body before its padding, and its padding
DataChars(b) == Cardinality({j \in 1..Len(b) : b[j] # "="})

PadChars(b) == Cardinality({j \in 1..Len(b) : b[j] = "="})

\* base64.urlsafe_b64decode(b) returns: the data characters, with their
\* padding, fill whole groups of four; otherwise it raises binascii.Error
B64Decodes(b) ==
  \/ DataChars(b) % 4 = 0
  \/ DataChars(b) % 4 = 2 /\ PadChars(b) >= 2
  \/ DataChars(b) % 4 = 3 /\ PadChars(b) >= 1

\* the decoded text, as its characters: three bytes for four data characters
B64Decoded(b) == [j \in 1..((DataChars(b) * 3) \div 4) |-> "?"]

DecodeErrorPreview == <<"[decode error]">>

\* the preview, were the except branch to leave it empty
PreviewNoSentinel(body_b64) ==
  IF body_b64 = <<>> THEN <<>>
  ELSE IF ~B64Decodes(body_b64) THEN <<>>
  ELSE LET decoded == B64Decoded(body_b64) IN
       IF Len(decoded) > PreviewLen
       THEN Take(decoded, PreviewLen) \o <<"...">>
       ELSE decoded

\* preview: "" without a body, the sentinel when decoding raises, else the
\* decoded text cut to 140 characters with an ellipsis
Preview(body_b64) ==
  IF body_b64 = <<>> THEN <<>>
  ELSE IF ~B64Decodes(body_b64) THEN DecodeErrorPreview
  ELSE LET decoded == B64Decoded(body_b64) IN
       IF Len(decoded) > PreviewLen
       THEN Take(decoded, PreviewLen) \o <<"...">>
       ELSE decoded

\* ------------------------------------------------------- sender normalising
\* The group key of a raw From header.
NormalizedSender(raw) ==
  LET sender_raw == Strip(raw) IN
  IF Contains(sender_raw, "<") /\ Contains(sender_raw, ">")
  THEN Lower(Strip(Split(Split(sender_raw, "<")[2], ">")[1]))
  ELSE Lower(sender_raw)

\* safe_sender: the sender as it appears in an archive file's name
SafeSender(sender) ==
  Take(Replace(Replace(sender, "@", "_"), ".", "_"), SafeSenderLen)

\* the archive file of one email of a sender's group: "<id>_<safe_sender>.json"
Filename(email, sender) == <<email.id, SafeSender(sender)>>

\* ---------------------------------------------------------------- grouping
\* position of the group with key `sender` in the ordered mapping, 0 if absent
GroupIndex(groups, sender) ==
  IF \E i \in 1..Len(groups) : groups[i].sender = sender
  THEN CHOOSE i \in 1..Len(groups) : groups[i].sender = sender
  ELSE 0

\* one iteration of group_by_sender's loop, dropping the count increment
AddEmailNoCount(groups, email) ==
  LET sender == NormalizedSender(email.sender)
      g0 == IF GroupIndex(groups, sender) = 0
            THEN Append(groups, [sender |-> sender, emails |-> <<>>, count |-> 0])
            ELSE groups
      i == GroupIndex(g0, sender)
  IN [g0 EXCEPT ![i].emails = Append(@, email)]

\* one iteration of group_by_sender's loop
AddEmail(groups, email) ==
  LET sender == NormalizedSender(email.sender)
      g0 == IF GroupIndex(groups, sender) = 0
            THEN Append(groups, [sender |-> sender, emails |-> <<>>, count |-> 0])
            ELSE groups
      i == GroupIndex(g0, sender)
  IN [g0 EXCEPT ![i].emails = Append(@, email), ![i].count = @ + 1]

RECURSIVE GroupFrom(_, _)
GroupFrom(groups, emails) ==
  IF emails = <<>> THEN groups
  ELSE GroupFrom(AddEmail(groups, Head(emails)), Tail(emails))

\* group_by_sender's mapping, in insertion order
GroupBySenderOf(emails) == GroupFrom(<<>>, emails)

\* sorted(groups.items(), key=lambda x: -x[1]["count"]): stable, largest first
FirstLargest(groups) ==
  CHOOSE i \in 1..Len(groups) :
    /\ \A j \in 1..Len(groups) : groups[j].count <= groups[i].count
    /\ \A j \in 1..(i - 1) : groups[j].count < groups[i].count

FirstSmallest(groups) ==
  CHOOSE i \in 1..Len(groups) :
    /\ \A j \in 1..Len(groups) : groups[j].count >= groups[i].count
    /\ \A j \in 1..(i - 1) : groups[j].count > groups[i].count

Without(s, i) == SubSeq(s, 1, i - 1) \o SubSeq(s, i + 1, Len(s))

RECURSIVE SortedAscending(_)
SortedAscending(groups) ==
  IF groups = <<>> THEN <<>>
  ELSE LET i == FirstSmallest(groups)
       IN <<groups[i]>> \o SortedAscending(Without(groups, i))

RECURSIVE SortedGroups(_)
SortedGroups(groups) ==
  IF groups = <<>> THEN <<>>
  ELSE LET i == FirstLargest(groups)
       IN <<groups[i]>> \o SortedGroups(Without(groups, i))

\* ------------------------------------------------------------------- state
VARIABLES
  variant,      \* "cli": main.py (graph + console); "web": app.py (Streamlit)
  inbox,        \* the provider's messages, as [id, sender (raw From header)]
  gmail_trash,  \* ids the provider has moved to trash
  disk,         \* archive files that exist, complete, under CONFIG.save_dir
  stage,        \* web: st.session_state.stage; cli: the graph node in control
  pc,           \* position inside the handler in control
  state,        \* the run state (AgentState): a mapping from its keys; <<>> is None
  ids,          \* fetch_emails: the listed ids
  emails,       \* fetch_emails: the local list of fetched emails
  i,            \* the running loop's index
  fetch_error,  \* fetch_emails reported "Fetch error"
  decisions,    \* cli: human_review's local mapping; web: st.session_state.decisions
  shown,        \* the senders presented so far by the review in progress
  choice,       \* cli: the last line read by input()
  warning,      \* web: "No senders selected for deletion." is displayed
  di,           \* execute_actions: index into state["decisions"].items()
  saved,        \* execute_actions: the local list of written paths
  trashed,      \* execute_actions: the local list of trashed ids
  trash_calls,  \* execute_actions: ids for which the trash endpoint was called
  reported,     \* execute_actions: ids whose "failed to trash" was reported
  raw,          \* a raw sender string handed to the normalisation
  key,          \* <<k>>: the key computed for raw; <<>> before that
  reruns        \* web: script reruns that restarted the stage in progress

vars == <<variant, inbox, gmail_trash, disk, stage, pc, state, ids, emails, i,
          fetch_error, decisions, shown, choice, warning, di, saved, trashed,
          trash_calls, reported, raw, key, reruns>>

\* ----------------------------------------------------------------- inputs
\* "a@x.c", "A <A@X.c>" (the same address with a display name, in capitals)
\* and " b@y.c"
RawSenders ==
  { <<"a", "@", "x", ".", "c">>,
    <<"A", " ", "<", "A", "@", "X", ".", "c", ">">>,
    <<" ", "b", "@", "y", ".", "c">> }

Inboxes ==
  UNION { [1..n -> RawSenders] : n \in 0..MaxMsgs }

\* a well-formed body, "QQ=="
PlainBody == <<"Q", "Q", "=", "=">>

\* message bodies: none, "QQ" (its padding is missing) and "QQ=="
Bodies == { <<>>, <<"Q", "Q">>, PlainBody }

BodyInboxes ==
  UNION { [1..n -> Bodies] : n \in 0..MaxMsgs }

\* lines typed at the console prompt
Choices ==
  { <<>>, <<" ">>, <<"d">>, <<" ", "D", " ">>, <<"k">>, <<"t">>, <<"x">>,
    <<"n", "o">>, <<"s", "k", "i", "p">>, <<"k", "e", "e", "p">>,
    <<"d", "e", "l", "e", "t", "e">>, <<"t", "r", "a", "s", "h">>,
    <<"r", "e", "m", "o", "v", "e">>, <<"d", "d">> }

SkipWords ==
  { <<"s", "k", "i", "p">>, <<"k", "e", "e", "p">>, <<"k">> }

DeleteWords ==
  { <<"d">>, <<"d", "e", "l", "e", "t", "e">>, <<"t">>,
    <<"t", "r", "a", "s", "h">>, <<"r", "e", "m", "o", "v", "e">> }

\* ------------------------------------------------------------ the run state
Get(d, k, default) == IF k \in DOMAIN d THEN d[k] ELSE default

Put(d, k, v) == [x \in (DOMAIN d) \cup {k} |-> IF x = k THEN v ELSE d[x]]

InitialState(max_fetch) ==
  [max_fetch |-> max_fetch, saved_paths |-> <<>>, trashed_ids |-> <<>>]

None == <<>>

\* an ordered mapping sender -> decision, as a sequence of items
DecisionIndex(d, sender) ==
  IF \E j \in 1..Len(d) : d[j].sender = sender
  THEN CHOOSE j \in 1..Len(d) : d[j].sender = sender
  ELSE 0

\* d[sender] = decision: a new key goes last, an old key keeps its place
SetDecision(d, sender, decision) ==
  IF DecisionIndex(d, sender) = 0
  THEN Append(d, [sender |-> sender, decision |-> decision])
  ELSE [d EXCEPT ![DecisionIndex(d, sender)].decision = decision]

\* d.get(sender, "skip")
DecisionOf(d, sender) ==
  IF DecisionIndex(d, sender) = 0 THEN "skip"
  ELSE d[DecisionIndex(d, sender)].decision

SendersOf(groups) == [j \in 1..Len(groups) |-> groups[j].sender]

\* the provider's INBOX listing: the messages not moved to trash, at most n
ListInbox(n) ==
  LET Keep(m) == m.id \notin gmail_trash IN
  Take(SelectSeq(inbox, Keep), n)

MessageOf(id) == CHOOSE m \in {inbox[j] : j \in 1..Len(inbox)} : m.id = id

Init ==
  /\ variant \in {"cli", "web"}
  /\ inbox \in { [j \in 1..Len(f) |->
                    [id |-> j, sender |-> f[j], body |-> PlainBody]] :
                  f \in Inboxes }
  /\ gmail_trash = {}
  /\ disk = {}
  /\ stage = IF variant = "cli" THEN "fetch" ELSE "welcome"
  /\ pc = IF variant = "cli" THEN "list" ELSE "idle"
  /\ state = IF variant = "cli" THEN InitialState(DefaultMaxFetch) ELSE None
  /\ ids = <<>>
  /\ emails = <<>>
  /\ i = 1
  /\ fetch_error = FALSE
  /\ decisions = <<>>
  /\ shown = <<>>
  /\ choice = <<>>
  /\ warning = FALSE
  /\ di = 1
  /\ saved = <<>>
  /\ trashed = <<>>
  /\ trash_calls = <<>>
  /\ reported = <<>>
  /\ raw = <<>>
  /\ key = <<>>
  /\ reruns = 0

\* ------------------------------------------------------------ web: stages
\* the stage dispatch, were the fetching stage to hand over to executing
StageAfterSkipsReview(s) ==
  CASE s = "welcome" -> "fetching"
    [] s = "fetching" -> "executing"
    [] s = "review" -> "executing"
    [] s = "executing" -> "finished"
    [] OTHER -> s

\* st.session_state.stage = ... at the end of each stage's branch
StageAfter(s) ==
  CASE s = "welcome" -> "fetching"
    [] s = "fetching" -> "review"
    [] s = "review" -> "executing"
    [] s = "executing" -> "finished"
    [] OTHER -> s

\* ------------------------------------------------------------ web: welcome
\* the "Start Cleanup" button
StartCleanup ==
  /\ variant = "web" /\ stage = "welcome"
  /\ state' = InitialState(DefaultMaxFetch)
  /\ stage' = StageAfter(stage)
  /\ pc' = "list"
  /\ fetch_error' = FALSE
  /\ reruns' = 0
  /\ UNCHANGED <<variant, inbox, gmail_trash, disk, ids, emails, i, decisions,
                 shown, choice, warning, di, saved, trashed, trash_calls,
                 reported, raw, key>>

\* ------------------------------------------------------------ fetch_emails
InFetch == stage \in {"fetch", "fetching"}

\* users().messages().list(...).execute() returns
FetchListOk ==
  /\ InFetch /\ pc = "list"
  /\ ids' = [j \in 1..Len(ListInbox(state.max_fetch)) |->
               ListInbox(state.max_fetch)[j].id]
  /\ emails' = <<>>
  /\ i' = 1
  /\ pc' = "get"
  /\ UNCHANGED <<variant, inbox, gmail_trash, disk, stage, state, fetch_error,
                 decisions, shown, choice, warning, di, saved, trashed,
                 trash_calls, reported, raw, key, reruns>>

\* the Email built from one message: the body found and its preview
FetchedEmail(msg) ==
  [id |-> msg.id, sender |-> msg.sender, body_b64 |-> msg.body,
   preview |-> Preview(msg.body)]

\* users().messages().get(id=mid).execute() returns: one email is appended
FetchGetOk ==
  /\ InFetch /\ pc = "get" /\ i <= Len(ids)
  /\ emails' = Append(emails, FetchedEmail(MessageOf(ids[i])))
  /\ i' = i + 1
  /\ UNCHANGED <<variant, inbox, gmail_trash, disk, stage, pc, state, ids,
                 fetch_error, decisions, shown, choice, warning, di, saved,
                 trashed, trash_calls, reported, raw, key, reruns>>

\* the except HttpError branch, were it to return what was fetched so far
FetchErrorKeepsPartial(v, st, partial) == Put(st, "emails", partial)

\* what fetch_emails returns from its except HttpError branch: cli
\* {"emails": []}, web the run state it was given
FetchErrorResult(v, st, partial) ==
  IF v = "cli" THEN Put(st, "emails", <<>>) ELSE st

\* the list call, or a get call, raises HttpError
FetchHttpError ==
  /\ InFetch
  /\ pc = "list" \/ (pc = "get" /\ i <= Len(ids))
  /\ fetch_error' = TRUE
  /\ state' = FetchErrorResult(variant, state, emails)
  /\ stage' = IF variant = "cli" THEN "group" ELSE stage
  /\ pc' = "group"
  /\ UNCHANGED <<variant, inbox, gmail_trash, disk, ids, emails, i, decisions,
                 shown, choice, warning, di, saved, trashed, trash_calls,
                 reported, raw, key, reruns>>

\* the loop over ids is over: the fetched emails enter the run state
FetchReturn ==
  /\ InFetch /\ pc = "get" /\ i > Len(ids)
  /\ state' = Put(state, "emails", emails)
  /\ stage' = IF variant = "cli" THEN "group" ELSE stage
  /\ pc' = "group"
  /\ UNCHANGED <<variant, inbox, gmail_trash, disk, ids, emails, i, fetch_error,
                 decisions, shown, choice, warning, di, saved, trashed,
                 trash_calls, reported, raw, key, reruns>>

\* --------------------------------------------------------- group_by_sender
GroupBySender ==
  /\ stage \in {"group", "fetching"} /\ pc = "group"
  /\ state' = Put(state, "groups", GroupBySenderOf(Get(state, "emails", <<>>)))
  /\ IF variant = "cli"
     THEN /\ stage' = "human_review"
          /\ pc' = "show"
          /\ decisions' = <<>>
     ELSE /\ stage' = StageAfter(stage)
          /\ pc' = IF stage' = "review" THEN "render" ELSE "exec_start"
          /\ UNCHANGED decisions
  /\ i' = 1
  /\ shown' = <<>>
  /\ UNCHANGED <<variant, inbox, gmail_trash, disk, ids, emails, fetch_error,
                 choice, warning, di, saved, trashed, trash_calls, reported,
                 raw, key, reruns>>

\* ------------------------------------------------- cli: human_review
Groups == Get(state, "groups", <<>>)

\* choice in ("skip", "keep", "k"), or anything that is not a delete trigger
IsSkipChoiceLax(c) == c \notin DeleteWords

\* not choice or choice in ("skip", "keep", "k")
IsSkipChoice(c) == c = <<>> \/ c \in SkipWords

\* choice in ("d", "delete", "t", "trash", "remove")
IsDeleteChoice(c) == c \in DeleteWords

\* the loop prints the next group, largest first
ReviewShow ==
  /\ stage = "human_review" /\ pc = "show"
  /\ i <= Len(SortedGroups(Groups))
  /\ shown' = Append(shown, SortedGroups(Groups)[i].sender)
  /\ pc' = "prompt"
  /\ UNCHANGED <<variant, inbox, gmail_trash, disk, stage, state, ids, emails,
                 i, fetch_error, decisions, choice, warning, di, saved,
                 trashed, trash_calls, reported, raw, key, reruns>>

\* one line is read at the prompt of the group shown last
ReviewInput(line) ==
  /\ stage = "human_review" /\ pc = "prompt"
  /\ choice' = Lower(Strip(line))
  /\ LET sender == SortedGroups(Groups)[i].sender IN
     IF IsSkipChoice(choice')
     THEN /\ decisions' = SetDecision(decisions, sender, "skip")
          /\ i' = i + 1
          /\ pc' = "show"
     ELSE IF IsDeleteChoice(choice')
     THEN /\ decisions' = SetDecision(decisions, sender, "delete")
          /\ i' = i + 1
          /\ pc' = "show"
     ELSE UNCHANGED <<decisions, i, pc>>
  /\ UNCHANGED <<variant, inbox, gmail_trash, disk, stage, state, ids, emails,
                 fetch_error, shown, warning, di, saved, trashed, trash_calls,
                 reported, raw, key, reruns>>

\* every group has been answered: return {"decisions": decisions}; the
\* function's local choice goes out of scope
ReviewReturn ==
  /\ stage = "human_review" /\ pc = "show"
  /\ i > Len(SortedGroups(Groups))
  /\ state' = Put(state, "decisions", decisions)
  /\ stage' = "execute"
  /\ pc' = "exec_start"
  /\ choice' = <<>>
  /\ UNCHANGED <<variant, inbox, gmail_trash, disk, ids, emails, i,
                 fetch_error, decisions, shown, warning, di, saved, trashed,
                 trash_calls, reported, raw, key, reruns>>

\* ------------------------------------------------------ web: review stage
\* a script run in the review stage draws one expander per group
RenderReview ==
  /\ stage = "review" /\ pc = "render"
  /\ "groups" \in DOMAIN state
  /\ shown' = SendersOf(SortedGroups(Groups))
  /\ pc' = "wait"
  /\ UNCHANGED <<variant, inbox, gmail_trash, disk, stage, state, ids, emails,
                 i, fetch_error, decisions, choice, warning, di, saved,
                 trashed, trash_calls, reported, raw, key, reruns>>

\* the "Keep (skip)" button of a sender's expander
ClickKeep(sender) ==
  /\ stage = "review" /\ pc = "wait"
  /\ decisions' = SetDecision(decisions, sender, "skip")
  /\ pc' = "render"
  /\ warning' = FALSE
  /\ UNCHANGED <<variant, inbox, gmail_trash, disk, stage, state, ids, emails,
                 i, fetch_error, shown, choice, di, saved, trashed,
                 trash_calls, reported, raw, key, reruns>>

\* the "Delete (save + trash)" button of a sender's expander
ClickDelete(sender) ==
  /\ stage = "review" /\ pc = "wait"
  /\ decisions' = SetDecision(decisions, sender, "delete")
  /\ pc' = "render"
  /\ warning' = FALSE
  /\ UNCHANGED <<variant, inbox, gmail_trash, disk, stage, state, ids, emails,
                 i, fetch_error, shown, choice, di, saved, trashed,
                 trash_calls, reported, raw, key, reruns>>

AnyDelete(d) == \E j \in 1..Len(d) : d[j].decision = "delete"

\* the "Confirm choices & Run cleanup" button
ClickConfirm ==
  /\ stage = "review" /\ pc = "wait"
  /\ IF ~AnyDelete(decisions)
     THEN /\ warning' = TRUE
          /\ UNCHANGED <<state, stage, pc, reruns>>
     ELSE /\ state' = Put(state, "decisions", decisions)
          /\ stage' = StageAfter(stage)
          /\ pc' = "exec_start"
          /\ warning' = FALSE
          /\ reruns' = 0
  /\ UNCHANGED <<variant, inbox, gmail_trash, disk, ids, emails, i,
                 fetch_error, decisions, shown, choice, di, saved, trashed,
                 trash_calls, reported, raw, key>>

\* --------------------------------------------------------- execute_actions
InExecute == stage \in {"execute", "executing"}

Items == Get(state, "decisions", <<>>)

\* state["groups"].get(sender) for the item in turn
CurrentGroup == Groups[GroupIndex(Groups, Items[di].sender)]

\* the entry of execute_actions, were its two lists kept from the run before
ExecStartKeepsLists ==
  /\ InExecute /\ pc = "exec_start"
  /\ trash_calls' = <<>>
  /\ reported' = <<>>
  /\ di' = 1
  /\ pc' = "next"
  /\ UNCHANGED <<variant, inbox, gmail_trash, disk, stage, state, ids, emails,
                 i, fetch_error, decisions, shown, choice, warning, saved,
                 trashed, raw, key, reruns>>

ExecStart ==
  /\ InExecute /\ pc = "exec_start"
  /\ saved' = <<>>
  /\ trashed' = <<>>
  /\ trash_calls' = <<>>
  /\ reported' = <<>>
  /\ di' = 1
  /\ pc' = "next"
  /\ UNCHANGED <<variant, inbox, gmail_trash, disk, stage, state, ids, emails,
                 i, fetch_error, decisions, shown, choice, warning, raw, key, reruns>>

\* the item in turn is acted upon: its decision is delete and it has a group
ActsOnAny(item) == GroupIndex(Groups, item.sender) # 0

ActsOn(item) ==
  item.decision = "delete" /\ GroupIndex(Groups, item.sender) # 0

\* the head of the loop over state["decisions"].items()
ExecNextSender ==
  /\ InExecute /\ pc = "next" /\ di <= Len(Items)
  /\ IF ActsOn(Items[di]) /\ CurrentGroup.emails # <<>>
     THEN /\ pc' = "save"
          /\ i' = 1
          /\ UNCHANGED di
     ELSE /\ di' = di + 1
          /\ UNCHANGED <<pc, i>>
  /\ UNCHANGED <<variant, inbox, gmail_trash, disk, stage, state, ids, emails,
                 fetch_error, decisions, shown, choice, warning, saved,
                 trashed, trash_calls, reported, raw, key, reruns>>

\* where the save loop hands over once the email at position n is written
AfterSaveEarly(n, len) == "trash"

AfterSave(n, len) == IF n = len THEN "trash" ELSE "save"

\* one archive file is written and its path recorded
ExecSaveOk ==
  /\ InExecute /\ pc = "save"
  /\ LET email == CurrentGroup.emails[i]
         path == Filename(email, Items[di].sender)
         next == AfterSave(i, Len(CurrentGroup.emails))
     IN /\ disk' = disk \cup {path}
        /\ saved' = Append(saved, path)
        /\ pc' = next
        /\ i' = IF next = "trash" THEN 1 ELSE i + 1
  /\ UNCHANGED <<variant, inbox, gmail_trash, stage, state, ids, emails,
                 fetch_error, decisions, shown, choice, warning, di, trashed,
                 trash_calls, reported, raw, key, reruns>>

\* opening or writing the file raises: execute_actions is left by the
\* exception; a file of that name may have been truncated by open("w")
ExecSaveFail ==
  /\ InExecute /\ pc = "save"
  /\ LET path == Filename(CurrentGroup.emails[i], Items[di].sender)
     IN disk' \in {disk, disk \ {path}}
  /\ pc' = "save_failed"
  /\ UNCHANGED <<variant, inbox, gmail_trash, stage, state, ids, emails, i,
                 fetch_error, decisions, shown, choice, warning, di, saved,
                 trashed, trash_calls, reported, raw, key, reruns>>

\* where the trash loop goes once the call for the email at position n is over
AfterTrash(n, len) == IF n = len THEN "next" ELSE "trash"

\* the trash loop moves on: to the next email, or to the next item
TrashAdvance(next) ==
  /\ pc' = next
  /\ di' = IF next = "next" THEN di + 1 ELSE di
  /\ i' = IF next = "trash" THEN i + 1 ELSE i

\* users().messages().trash(id=...).execute() returns
ExecTrashOk ==
  /\ InExecute /\ pc = "trash"
  /\ LET id == CurrentGroup.emails[i].id
     IN /\ gmail_trash' = gmail_trash \cup {id}
        /\ trashed' = Append(trashed, id)
        /\ trash_calls' = Append(trash_calls, id)
  /\ TrashAdvance(AfterTrash(i, Len(CurrentGroup.emails)))
  /\ UNCHANGED <<variant, inbox, disk, stage, state, ids, emails, fetch_error,
                 decisions, shown, choice, warning, saved, reported, raw, key, reruns>>

\* the except HttpError branch, were it to leave execute_actions
AfterTrashErrorAborts(n, len) == "trash_failed"

\* the except HttpError branch reports and falls through to the loop
AfterTrashError(n, len) == AfterTrash(n, len)

\* the trash call raises HttpError: reported, and the loop goes on
ExecTrashHttpError ==
  /\ InExecute /\ pc = "trash"
  /\ LET id == CurrentGroup.emails[i].id
     IN /\ reported' = Append(reported, id)
        /\ trash_calls' = Append(trash_calls, id)
  /\ TrashAdvance(AfterTrashError(i, Len(CurrentGroup.emails)))
  /\ UNCHANGED <<variant, inbox, gmail_trash, disk, stage, state, ids, emails,
                 fetch_error, decisions, shown, choice, warning, saved,
                 trashed, raw, key, reruns>>

\* the returned run state, were the two local lists left out of it
ExecResultWithoutLists(v, st, sv, tr) == st

\* the returned run state: cli merges through the reducer, web overwrites
ExecResult(v, st, sv, tr) ==
  IF v = "cli"
  THEN Put(Put(st, "saved_paths", st.saved_paths \o sv),
           "trashed_ids", st.trashed_ids \o tr)
  ELSE Put(Put(st, "saved_paths", sv), "trashed_ids", tr)

\* the loop over the items is over
ExecReturn ==
  /\ InExecute /\ pc = "next" /\ di > Len(Items)
  /\ state' = ExecResult(variant, state, saved, trashed)
  /\ stage' = IF variant = "cli" THEN "END" ELSE StageAfter(stage)
  /\ pc' = "idle"
  /\ UNCHANGED <<variant, inbox, gmail_trash, disk, ids, emails, i,
                 fetch_error, decisions, shown, choice, warning, di, saved,
                 trashed, trash_calls, reported, raw, key, reruns>>

\* ----------------------------------------------------------- web: finished
\* the stage a cleared session starts in
SessionStartStage == "welcome"

\* the "Start new session" button: every session key is deleted, and the
\* rerun initialises them again
StartNewSession ==
  /\ variant = "web" /\ stage = "finished"
  /\ stage' = SessionStartStage
  /\ state' = None
  /\ decisions' = <<>>
  /\ pc' = "idle"
  /\ UNCHANGED <<variant, inbox, gmail_trash, disk, ids, emails, i,
                 fetch_error, shown, choice, warning, di, saved, trashed,
                 trash_calls, reported, raw, key, reruns>>

Next ==
  \/ StartCleanup
  \/ FetchListOk
  \/ FetchGetOk
  \/ FetchHttpError
  \/ FetchReturn
  \/ GroupBySender
  \/ ReviewShow
  \/ \E line \in Choices : ReviewInput(line)
  \/ ReviewReturn
  \/ RenderReview
  \/ \E sender \in {shown[j] : j \in 1..Len(shown)} : ClickKeep(sender)
  \/ \E sender \in {shown[j] : j \in 1..Len(shown)} : ClickDelete(sender)
  \/ ClickConfirm
  \/ ExecStart
  \/ ExecNextSender
  \/ ExecSaveOk
  \/ ExecSaveFail
  \/ ExecTrashOk
  \/ ExecTrashHttpError
  \/ ExecReturn
  \/ StartNewSession

Spec == Init /\ [][Next]_vars

\* ----------------------------------------- runs over messages of any body
\* one sender, every body
InitDecode ==
  /\ variant \in {"cli", "web"}
  /\ inbox \in { [j \in 1..Len(f) |->
                    [id |-> j, sender |-> <<"a", "@", "x", ".", "c">>,
                     body |-> f[j]]] :
                  f \in BodyInboxes }
  /\ gmail_trash = {}
  /\ disk = {}
  /\ stage = IF variant = "cli" THEN "fetch" ELSE "welcome"
  /\ pc = IF variant = "cli" THEN "list" ELSE "idle"
  /\ state = IF variant = "cli" THEN InitialState(DefaultMaxFetch) ELSE None
  /\ ids = <<>>
  /\ emails = <<>>
  /\ i = 1
  /\ fetch_error = FALSE
  /\ decisions = <<>>
  /\ shown = <<>>
  /\ choice = <<>>
  /\ warning = FALSE
  /\ di = 1
  /\ saved = <<>>
  /\ trashed = <<>>
  /\ trash_calls = <<>>
  /\ reported = <<>>
  /\ raw = <<>>
  /\ key = <<>>
  /\ reruns = 0

SpecDecode == InitDecode /\ [][Next]_vars

\* --------------------------------------------- web: reruns inside a stage
\* A rerun of the script while the fetching or the executing branch is under
\* way, or after it was left by an exception: the branch starts again from
\* the session state as it is, st.session_state.stage not yet assigned.
Rerun ==
  /\ variant = "web"
  /\ reruns < MaxReruns
  /\ \/ /\ stage = "fetching" /\ pc \in {"list", "get", "group"}
        /\ pc' = "list"
        /\ fetch_error' = FALSE
     \/ /\ stage = "executing"
        /\ pc \in {"exec_start", "next", "save", "trash", "save_failed"}
        /\ pc' = "exec_start"
        /\ UNCHANGED fetch_error
  /\ reruns' = reruns + 1
  /\ UNCHANGED <<variant, inbox, gmail_trash, disk, stage, state, ids, emails,
                 i, decisions, shown, choice, warning, di, saved, trashed,
                 trash_calls, reported, raw, key>>

InitRerun == Init /\ variant = "web" /\ Len(inbox) <= MaxRerunMsgs

NextRerun ==
  \/ StartCleanup
  \/ FetchListOk
  \/ FetchGetOk
  \/ FetchHttpError
  \/ FetchReturn
  \/ GroupBySender
  \/ RenderReview
  \/ \E sender \in {shown[j] : j \in 1..Len(shown)} : ClickKeep(sender)
  \/ \E sender \in {shown[j] : j \in 1..Len(shown)} : ClickDelete(sender)
  \/ ClickConfirm
  \/ ExecStart
  \/ ExecNextSender
  \/ ExecSaveOk
  \/ ExecSaveFail
  \/ ExecTrashOk
  \/ ExecTrashHttpError
  \/ ExecReturn
  \/ StartNewSession
  \/ Rerun

SpecRerun == InitRerun /\ [][NextRerun]_vars

\* ------------------------------------------- the sender key, on its own
\* raw sender strings over the characters the normalisation looks at
Alphabet == {"<", ">", " ", "a", "A"}

RawStrings == UNION { [1..n -> Alphabet] : n \in 0..MaxRawLen }

InitKey ==
  /\ variant = "cli"
  /\ inbox = <<>>
  /\ gmail_trash = {}
  /\ disk = {}
  /\ stage = "group"
  /\ pc = "key"
  /\ state = InitialState(DefaultMaxFetch)
  /\ ids = <<>>
  /\ emails = <<>>
  /\ i = 1
  /\ fetch_error = FALSE
  /\ decisions = <<>>
  /\ shown = <<>>
  /\ choice = <<>>
  /\ warning = FALSE
  /\ di = 1
  /\ saved = <<>>
  /\ trashed = <<>>
  /\ trash_calls = <<>>
  /\ reported = <<>>
  /\ raw \in RawStrings
  /\ key = <<>>
  /\ reruns = 0

\* group_by_sender computes the key of one email's sender
ComputeKey ==
  /\ pc = "key" /\ key = <<>>
  /\ key' = <<NormalizedSender(raw)>>
  /\ UNCHANGED <<variant, inbox, gmail_trash, disk, stage, pc, state, ids,
                 emails, i, fetch_error, decisions, shown, choice, warning,
                 di, saved, trashed, trash_calls, reported, raw, reruns>>

NextKey == ComputeKey

SpecKey == InitKey /\ [][NextKey]_vars

\* ================================================================= claims
Range(q) == {q[j] : j \in 1..Len(q)}

Done == stage \in {"END", "finished"}

\* execute_actions is running or has returned, on the run state it was given
Executing == (InExecute /\ pc # "exec_start") \/ Done

GroupSet == Range(Groups)

IdsOf(g) == {g.emails[j].id : j \in 1..Len(g.emails)}

FilesOf(g) == {Filename(g.emails[j], g.sender) : j \in 1..Len(g.emails)}

\* the number of entries of the list q that lie in the set S
CountIn(q, S) == Cardinality({j \in 1..Len(q) : q[j] \in S})

DeleteMarked(g) == DecisionIndex(Items, g.sender) # 0
                   /\ DecisionOf(Items, g.sender) = "delete"

RECURSIVE SumCounts(_)
SumCounts(groups) ==
  IF groups = <<>> THEN 0 ELSE Head(groups).count + SumCounts(Tail(groups))

\* C1: save-before-trash.  Whenever a trash call has been issued for a
\* message, every message of its sender's group has already been written: the
\* saved paths of that sender number the group's count and the files exist;
\* every message the provider holds in trash has an archive file on disk; and
\* when a save has failed, no trash call was issued for that sender.
C1_SaveBeforeTrash ==
  /\ Executing =>
       \A g \in GroupSet :
         /\ (IdsOf(g) \cap Range(trash_calls) # {}) =>
              /\ CountIn(saved, FilesOf(g)) = g.count
              /\ FilesOf(g) \subseteq disk
         /\ (pc = "trash" /\ g = CurrentGroup) =>
              CountIn(saved, FilesOf(g)) = g.count
  /\ pc = "save_failed" => IdsOf(CurrentGroup) \cap Range(trash_calls) = {}
  /\ \A id \in gmail_trash : \E f \in disk : f[1] = id

\* a trash call has been issued for a message of a group of two or more
C1_Witness ==
  /\ InExecute /\ pc = "trash"
  /\ trash_calls # <<>>
  /\ CurrentGroup.count >= 2
  /\ Len(Groups) >= 2

\* C2: a sender absent from the decisions mapping, like one mapped to skip,
\* has none of its messages saved and none trashed by execute_actions; only
\* senders mapped to delete are acted upon.
C2_AbsentIsSkip ==
  Executing =>
    \A g \in GroupSet :
      ~DeleteMarked(g) =>
        /\ FilesOf(g) \cap Range(saved) = {}
        /\ IdsOf(g) \cap Range(trash_calls) = {}
        /\ IdsOf(g) \cap gmail_trash = {}

\* execute_actions has returned, having saved and trashed the messages of
\* one sender, while another sender is absent from the mapping
C2_Witness ==
  /\ Done
  /\ trashed # <<>>
  /\ saved # <<>>
  /\ \E g \in GroupSet : DecisionIndex(Items, g.sender) = 0

\* C3: the groups partition the fetched emails: every email is in exactly one
\* group, under its own key; each count is the length of the group's
\* sequence; the counts sum to the number of emails; no emails, no groups.
C3_GroupsPartition ==
  "groups" \in DOMAIN state =>
    LET fetched == Get(state, "emails", <<>>) IN
    /\ \A e \in Range(fetched) :
         Cardinality({j \in 1..Len(Groups) : e \in Range(Groups[j].emails)}) = 1
    /\ \A j \in 1..Len(Groups) :
         /\ Groups[j].count = Len(Groups[j].emails)
         /\ Groups[j].count >= 1
         /\ Range(Groups[j].emails) \subseteq Range(fetched)
         /\ \A k \in 1..Len(Groups) : Groups[k].sender = Groups[j].sender => k = j
    /\ SumCounts(Groups) = Len(fetched)
    /\ fetched = <<>> => Groups = <<>>

\* three emails fall into two groups, one of two emails
C3_Witness ==
  /\ "groups" \in DOMAIN state
  /\ Len(Get(state, "emails", <<>>)) = 3
  /\ Len(Groups) = 2
  /\ \E g \in GroupSet : g.count = 2

\* C4: the key of a sender string that holds an address in angle brackets
\* is that address, lower-cased; the key of any other string is the string,
\* trimmed and lower-cased.  An address in angle brackets is a "<", a later
\* ">" and the text without brackets between them.
IsAddressAt(s, a, b) ==
  /\ a < b /\ s[a] = "<" /\ s[b] = ">"
  /\ \A j \in (a + 1)..(b - 1) : s[j] \notin {"<", ">"}

BracketAddresses(s) ==
  { Lower(Strip(SubSeq(s, ab[1] + 1, ab[2] - 1))) :
      ab \in { xy \in (1..Len(s)) \X (1..Len(s)) : IsAddressAt(s, xy[1], xy[2]) } }

C4_KeyIsAddress ==
  key # <<>> =>
    IF BracketAddresses(raw) # {}
    THEN key[1] \in BracketAddresses(raw)
    ELSE key[1] = Lower(Strip(raw))

\* C5: a failed trash call leaves that id out of the trashed ids and keeps
\* the files and saved paths written so far; execute_actions goes on: only a
\* failed save stops it before its return, and when it returns a trash call
\* has been issued, in order, for every message of every delete-marked group.
RECURSIVE ExpectedTrashCalls(_)
ExpectedTrashCalls(items) ==
  IF items = <<>> THEN <<>>
  ELSE LET it == Head(items)
           g == Groups[GroupIndex(Groups, it.sender)]
       IN (IF it.decision = "delete" /\ GroupIndex(Groups, it.sender) # 0
           THEN [j \in 1..Len(g.emails) |-> g.emails[j].id]
           ELSE <<>>) \o ExpectedTrashCalls(Tail(items))

DeleteGroups == {g \in GroupSet : DeleteMarked(g)}

C7_CountsMatch ==
  (Done /\ reported = <<>>) =>
    LET ids_marked == UNION {IdsOf(g) : g \in DeleteGroups}
        files_marked == UNION {FilesOf(g) : g \in DeleteGroups}
    IN /\ Len(state.saved_paths) = Cardinality(ids_marked)
       /\ Len(state.trashed_ids) = Cardinality(ids_marked)
       /\ Range(state.trashed_ids) = ids_marked
       /\ Range(state.saved_paths) = files_marked
       /\ ids_marked \subseteq gmail_trash
       /\ files_marked \subseteq disk
       /\ \A g \in GroupSet \ DeleteGroups :
            /\ IdsOf(g) \cap Range(state.trashed_ids) = {}
            /\ FilesOf(g) \cap Range(state.saved_paths) = {}
            /\ IdsOf(g) \cap gmail_trash = {}

\* the spec's example: a@x.c has two messages and is deleted, b@y.c has one
\* and is skipped; two files are saved and two ids trashed
C7_Witness ==
  /\ Done /\ reported = <<>>
  /\ Len(Groups) = 2
  /\ \E g \in GroupSet : g.sender = <<"a", "@", "x", ".", "c">> /\ g.count = 2
                         /\ DeleteMarked(g)
  /\ \E g \in GroupSet : g.sender = <<"b", "@", "y", ".", "c">> /\ g.count = 1
                         /\ DecisionIndex(Items, g.sender) # 0
                         /\ ~DeleteMarked(g)
  /\ Len(state.saved_paths) = 2
  /\ Len(state.trashed_ids) = 2

\* C8 (as stated): at the console prompt every input that is not a delete
\* trigger records skip for the sender shown.
AtPrompt == stage = "human_review" /\ pc = "prompt"

PromptedSender == SortedGroups(Groups)[i].sender

Recorded(d, sender, decision) ==
  DecisionIndex(d, sender) # 0 /\ DecisionOf(d, sender) = decision

C8_OtherInputSkips ==
  [][AtPrompt =>
       (choice' \notin DeleteWords => Recorded(decisions', PromptedSender, "skip"))
    ]_vars

\* C8 (amended): every recorded decision is skip or delete.  At the console
\* prompt a delete trigger records delete, an empty line or skip/keep/k
\* records skip, and any other text records nothing: the same sender is
\* prompted again; when human_review returns every group has a decision.  In
\* the web variant a button records its own decision for its own sender, and
\* a sender without a click reads as skip.
TwoOutcomes(d) == \A j \in 1..Len(d) : d[j].decision \in {"skip", "delete"}

ChangedOnly(d, e, sender) ==
  \A g \in GroupSet : g.sender # sender =>
    /\ (DecisionIndex(d, g.sender) = 0) = (DecisionIndex(e, g.sender) = 0)
    /\ DecisionOf(d, g.sender) = DecisionOf(e, g.sender)

C8_DecideOutcomes ==
  [][/\ TwoOutcomes(decisions')
     /\ AtPrompt =>
          /\ choice' \in DeleteWords =>
               /\ Recorded(decisions', PromptedSender, "delete")
               /\ pc' = "show" /\ i' = i + 1
          /\ (choice' = <<>> \/ choice' \in {<<"s", "k", "i", "p">>,
                                            <<"k", "e", "e", "p">>, <<"k">>}) =>
               /\ Recorded(decisions', PromptedSender, "skip")
               /\ pc' = "show" /\ i' = i + 1
          /\ (choice' # <<>> /\ choice' \notin DeleteWords
              /\ choice' \notin {<<"s", "k", "i", "p">>,
                                 <<"k", "e", "e", "p">>, <<"k">>}) =>
               /\ decisions' = decisions
               /\ pc' = "prompt" /\ i' = i
          /\ ChangedOnly(decisions, decisions', PromptedSender)
     /\ (stage = "human_review" /\ stage' = "execute") =>
          \A g \in GroupSet : DecisionIndex(Items', g.sender) # 0
     /\ (stage = "review" /\ pc = "wait" /\ decisions' # decisions) =>
          \E sender \in Range(shown) :
            /\ ChangedOnly(decisions, decisions', sender)
            /\ DecisionIndex(decisions', sender) # 0
     /\ (stage = "review" /\ stage' = "executing") =>
          \A g \in GroupSet :
            DecisionIndex(Items', g.sender) = 0 =>
              DecisionOf(Items', g.sender) = "skip"
    ]_vars

\* an unrecognised line has been typed and the same sender is prompted again
C8_Witness ==
  /\ AtPrompt
  /\ choice = <<"x">>
  /\ DecisionIndex(decisions, PromptedSender) = 0

\* C9 (as stated): the groups are presented largest first, each once, and the
\* step hands over to Execute once every group has been shown, whatever the
\* input: the console's last prompt ends on any line, and the web's Confirm
\* always leaves the review.
Descending(q) ==
  \A j \in 1..Len(q) : \A k \in j..Len(q) :
    Groups[GroupIndex(Groups, q[j])].count >= Groups[GroupIndex(Groups, q[k])].count

Once(q) == \A j \in 1..Len(q) : \A k \in 1..Len(q) : q[j] = q[k] => j = k

AllShown == Range(shown) = {g.sender : g \in GroupSet}

Presented ==
  (stage \in {"human_review", "review"}) => Descending(shown) /\ Once(shown)

C9_TerminatesOnAnyInput ==
  [][/\ Presented'
     /\ (AtPrompt /\ AllShown) => pc' = "show"
     /\ (stage = "review" /\ pc = "wait" /\ AllShown /\ shown # <<>>
         /\ pc' # "render") =>
          stage' = "executing"
    ]_vars

\* C9 (amended): the groups are presented largest first, each once per pass.
\* The console hands over to Execute once every group has been answered by
\* a recognised line, with every group shown once; an unrecognised line keeps
\* the prompt.  The web hands over to Execute exactly when Confirm is pressed
\* with a sender marked delete, every group being on display.
C9_DecidePresentation ==
  [][/\ Presented'
     /\ AtPrompt =>
          (pc' = "show") = (choice' = <<>> \/ choice' \in SkipWords
                            \/ choice' \in DeleteWords)
     /\ (stage = "human_review" /\ stage' # stage) =>
          /\ stage' = "execute"
          /\ shown = SendersOf(SortedGroups(Groups))
          /\ Len(decisions) = Len(Groups)
     /\ (stage = "review" /\ pc = "render") =>
          /\ AllShown' /\ Len(shown') = Len(Groups)
     /\ (stage = "review" /\ pc = "wait") =>
          /\ pc' # "render" => (stage' = "executing") = AnyDelete(decisions)
          /\ pc' = "render" => decisions' # <<>>
          /\ stage' # "executing" => stage' = "review"
    ]_vars

\* the console review has handed over after showing the larger group first,
\* though the smaller one had been fetched first
C9_Witness ==
  /\ stage = "execute"
  /\ Len(shown) = 2
  /\ Groups[1].count < Groups[2].count
  /\ shown[1] = Groups[2].sender

\* C10 (as stated): the web stage only ever moves to its immediate successor
\* in welcome, fetching, review, executing, finished.
Stages == <<"welcome", "fetching", "review", "executing", "finished">>

StageNo(s) == CHOOSE j \in 1..Len(Stages) : Stages[j] = s

C10_OnlyForward ==
  [][(variant = "web" /\ stage' # stage) =>
       /\ stage \in Range(Stages) /\ stage' \in Range(Stages)
       /\ StageNo(stage') = StageNo(stage) + 1
    ]_vars

\* C10 (amended): the web stage is always one of the five stages and moves
\* to its immediate successor, except that "Start new session" in finished
\* clears the session and enters welcome again.
C10_ForwardOrNewSession ==
  [][variant = "web" =>
       /\ stage' \in Range(Stages)
       /\ stage' # stage =>
            \/ StageNo(stage') = StageNo(stage) + 1
            \/ /\ stage = "finished" /\ stage' = "welcome"
               /\ state' = None /\ decisions' = <<>>
    ]_vars

\* a second session has been started after a cleanup that trashed a message
C10_Witness ==
  /\ variant = "web"
  /\ stage = "welcome"
  /\ gmail_trash # {}

\* C12: a body whose decoding raises never ends the fetch: fetch_emails
\* stops only by returning or through a reported HttpError; the message is
\* in the fetched list with the preview "[decode error]"; the messages
\* after it are fetched too, so that a fetch without HttpError returns one
\* email per listed message.
PreviewRight(e) ==
  /\ e.body_b64 = MessageOf(e.id).body
  /\ (e.body_b64 # <<>> /\ ~B64Decodes(e.body_b64)) =>
       e.preview = <<"[decode error]">>
  /\ (e.body_b64 # <<>> /\ B64Decodes(e.body_b64)) =>
       e.preview # <<"[decode error]">>
  /\ e.body_b64 = <<>> => e.preview = <<>>

C12_DecodeErrorRecovered ==
  /\ InFetch => pc \in {"list", "get", "group"}
  /\ (InFetch /\ pc = "get") =>
       /\ Len(emails) = i - 1
       /\ \A j \in 1..Len(emails) : emails[j].id = ids[j] /\ PreviewRight(emails[j])
  /\ ("emails" \in DOMAIN state /\ ~fetch_error) =>
       /\ Len(state.emails) = Len(ids)
       /\ \A j \in 1..Len(ids) : state.emails[j].id = ids[j]
  /\ "emails" \in DOMAIN state =>
       \A e \in Range(state.emails) : PreviewRight(e)

\* a run has come to its end with a message of undecodable body fetched
\* first, under the sentinel preview, and a decodable one after it
C12_Witness ==
  /\ Done
  /\ Len(state.emails) >= 2
  /\ ~B64Decodes(state.emails[1].body_b64)
  /\ state.emails[1].preview = <<"[decode error]">>
  /\ state.emails[2].preview = <<"?">>

\* C11: in the web variant a stage function run again on the session state,
\* before the stage has moved on, ends as a single run does.  When the
\* fetching stage is left by a run without a fetch error, the emails are
\* those of the inbox listing and the groups are their grouping; when the
\* executing stage is left, saved_paths holds one path per message of the
\* delete-marked senders, in order and none twice, trashed_ids holds no id
\* twice and, when no trash call of that run failed, one id per such
\* message; the files and the trashed messages are those of the
\* delete-marked senders and no others.
RECURSIVE FetchAll(_)
FetchAll(msgs) ==
  IF msgs = <<>> THEN <<>>
  ELSE <<FetchedEmail(Head(msgs))>> \o FetchAll(Tail(msgs))

FetchNow == FetchAll(ListInbox(state.max_fetch))

RECURSIVE ExpectedSavedPaths(_)
ExpectedSavedPaths(items) ==
  IF items = <<>> THEN <<>>
  ELSE LET it == Head(items)
           g == Groups[GroupIndex(Groups, it.sender)]
       IN (IF it.decision = "delete" /\ GroupIndex(Groups, it.sender) # 0
           THEN [j \in 1..Len(g.emails) |-> Filename(g.emails[j], it.sender)]
           ELSE <<>>) \o ExpectedSavedPaths(Tail(items))

\* a step into or within review: the emails are those of the listing, and
\* the groups are the grouping of the emails the step started from
FetchedAsOnce ==
  (stage' = "review" /\ ~fetch_error') =>
    /\ state'.emails = FetchNow'
    /\ state'.emails = state.emails
    /\ state'.groups = GroupBySenderOf(state.emails)

ExecutedAsOnce ==
  stage = "finished" =>
    LET ids_marked == UNION {IdsOf(g) : g \in DeleteGroups} IN
    /\ state.saved_paths = ExpectedSavedPaths(Items)
    /\ Once(state.saved_paths) /\ Once(state.trashed_ids)
    /\ Len(state.saved_paths) = Cardinality(ids_marked)
    /\ Range(state.saved_paths) \subseteq disk
    /\ Range(state.trashed_ids) \subseteq gmail_trash
    /\ reported = <<>> =>
         /\ state.trashed_ids = ExpectedTrashCalls(Items)
         /\ ids_marked \subseteq gmail_trash
    /\ gmail_trash \cap UNION {IdsOf(g) : g \in GroupSet} \subseteq ids_marked

\* a step touches no file and no message but those of delete-marked senders
EffectsWithin ==
  LET ids_marked == UNION {IdsOf(g) : g \in DeleteGroups}
      files_marked == UNION {FilesOf(g) : g \in DeleteGroups}
  IN IF stage = "executing"
     THEN /\ (disk' \ disk) \cup (disk \ disk') \subseteq files_marked
          /\ gmail_trash \subseteq gmail_trash'
          /\ gmail_trash' \ gmail_trash \subseteq ids_marked
     ELSE UNCHANGED <<disk, gmail_trash>>

C11_RerunAsOnce ==
  [][variant = "web" => FetchedAsOnce /\ ExecutedAsOnce' /\ EffectsWithin]_vars

\* execute_actions, started again after a run that was interrupted, has
\* written every file once more and issues its last trash call, for a
\* message the interrupted run had already moved to trash
C11_Witness ==
  /\ variant = "web" /\ stage = "executing" /\ reruns >= 1
  /\ pc = "trash"
  /\ di = Len(Items) /\ i = Len(CurrentGroup.emails)
  /\ Len(saved) = Len(ExpectedSavedPaths(Items))
  /\ reported = <<>>
  /\ CurrentGroup.emails[i].id \in gmail_trash

====
